---- MODULE Spec2Model ----
(***************************************************************************)
(* Turkey-Poland trade explorer: the aggregation / ranking / CAGR /        *)
(* projection / share pipeline of the Streamlit pages.                      *)
(*                                                                         *)
(* Numbers.  Trade values are non-negative integers.  A growth factor      *)
(* 1 + cagr is the real number (num/den)^(1/root), kept exactly as the      *)
(* record [num, den, root]; every comparison the code makes on it is        *)
(* decided exactly by integer arithmetic on limbs (no rounding).  A         *)
(* projected value is coef * G^pow for the growth factor G of its series,   *)
(* kept as the record [coef, pow]; a historical value has pow = 0.          *)
(***************************************************************************)
EXTENDS Integers, Sequences, FiniteSets

VARIABLES
    \* ---- project_series_cagr called on its own (SpecCagr) ----
    df_series,       \* the argument: a sequence of [Year, Final_FOB_Value]
    sorted_series,   \* df_series.sort_values("Year") as the call saw it
    ret,             \* what the call returned (NotCalled before the call)
    \* ---- one run of a page script (Spec) ----
    page,            \* which page script runs
    pc,              \* position in the script
    df,              \* load_data(): the trade table, a set of rows
    direction,       \* sidebar: trade direction
    selected,        \* sidebar: "Home" or a code
    show_projection, \* sidebar checkbox
    data,            \* the filtered table
    top10,           \* ranking of the latest year (Home)
    grouped,         \* (Year, code) totals
    complete,        \* per-category frames appended by the loop
    chart_data,      \* rows handed to the line chart (a bag of rows)
    notices,         \* st.info notices: the codes named, in order
    warnings,        \* st.warning texts, in order
    rendered,        \* the charts / tables handed to the renderer
    pie_year,        \* structure year chosen
    pie_data,        \* share rows of the structure year
    pie_table,       \* the share table as displayed
    mdf,             \* load_military_data(): the military table
    hs_selected,     \* military sidebar: selected HS codes
    view_mode,       \* military sidebar: view mode
    rank_year,       \* military page: ranking year chosen
    ranking,         \* military ranking of rank_year
    eu_df,           \* load_trade(): the EU table
    metric,          \* EU sidebar: trade measure
    ts,              \* EU page: (Year, Country) totals
    cagr_df,         \* EU page: the CAGR of each country kept, as displayed
    matrix           \* EU page: growth vs size rows

vars == <<df_series, sorted_series, ret, page, pc, df, direction, selected,
          show_projection, data, top10, grouped, complete, chart_data,
          notices, warnings, rendered, pie_year, pie_data, pie_table, mdf,
          hs_selected, view_mode, rank_year, ranking, eu_df, metric, ts,
          cagr_df, matrix>>

cagrVars == <<df_series, sorted_series, ret>>

euVars == <<eu_df, metric, ts, cagr_df, matrix>>

pageVars == <<page, pc, df, direction, selected, show_projection, data,
              top10, grouped, complete, chart_data, notices, warnings,
              rendered, pie_year, pie_data, pie_table, mdf, hs_selected,
              view_mode, rank_year, ranking, eu_df, metric, ts, cagr_df,
              matrix>>

----------------------------------------------------------------------------
(* Bounds of the model *)

\* longest series handed to project_series_cagr in SpecCagr
MaxLen == 3
\* most rows of the trade table
MaxRows == 3
\* categories beyond TopN in the wide trade tables
WideExtra == 1
\* most rows of the military table
MaxMilRows == 2
\* most rows of the EU table
MaxEuRows == 3

(* Program constants *)

\* recent = df_series[df_series["Year"] >= 2020]
WindowStart == 2020
\* range(last_year + 1, 2031): the last projected year
HorizonEnd == 2030
\* max(min(cagr, 0.35), -0.35), in hundredths
CagrCap == 35
\* all_years = list(range(2013, 2025))
FirstYear == 2013
LastYear == 2024
\* .head(10)
TopN == 10

----------------------------------------------------------------------------
(* Generic helpers *)

Range(s) == {s[i] : i \in DOMAIN s}

Max2(a, b) == IF a >= b THEN a ELSE b

RECURSIVE SeqSum(_)
SeqSum(s) == IF s = <<>> THEN 0 ELSE Head(s) + SeqSum(Tail(s))

\* The elements of a finite set of integers, ascending.
RECURSIVE SortedInts(_)
SortedInts(S) ==
    IF S = {} THEN <<>>
    ELSE LET m == CHOOSE x \in S : \A y \in S : x <= y
         IN  <<m>> \o SortedInts(S \ {m})

RECURSIVE FlattenSeq(_)
FlattenSeq(ss) == IF ss = <<>> THEN <<>> ELSE Head(ss) \o FlattenSeq(Tail(ss))

\* The rows of a sequence as a bag: row |-> number of occurrences.
BagOfSeq(s) ==
    [r \in Range(s) |-> Cardinality({i \in DOMAIN s : s[i] = r})]

\* The permutations of 1..n.
Perms(n) ==
    {f \in [1..n -> 1..n] : \A i, j \in 1..n : i # j => f[i] # f[j]}

----------------------------------------------------------------------------
(* Exact arithmetic for (end / start) ** (1 / years) and the clamp *)

\* a natural number as little-endian limbs in base 10000
BigOf(n) == IF n = 0 THEN <<>> ELSE <<n>>

RECURSIVE BigMul(_, _, _)
BigMul(x, m, carry) ==
    IF x = <<>> THEN (IF carry = 0 THEN <<>> ELSE <<carry>>)
    ELSE LET t == Head(x) * m + carry
         IN  <<t % 10000>> \o BigMul(Tail(x), m, t \div 10000)

\* a * m^n
RECURSIVE BigPowMul(_, _, _)
BigPowMul(a, m, n) ==
    IF a = 0 \/ (m = 0 /\ n > 0) THEN <<>>
    ELSE IF n = 0 THEN BigOf(a)
    ELSE BigMul(BigPowMul(a, m, n - 1), m, 0)

RECURSIVE BigCmpFrom(_, _, _)
BigCmpFrom(x, y, i) ==
    IF i = 0 THEN 0
    ELSE IF x[i] < y[i] THEN -1
    ELSE IF x[i] > y[i] THEN 1
    ELSE BigCmpFrom(x, y, i - 1)

\* -1, 0, 1 as x < y, x = y, x > y
BigCmp(x, y) ==
    IF Len(x) < Len(y) THEN -1
    ELSE IF Len(x) > Len(y) THEN 1
    ELSE BigCmpFrom(x, y, Len(x))

\* The sign of (g.num/g.den)^(1/g.root) - p/q, for q > 0, g.den > 0:
\* both sides are non-negative, so compare their g.root-th powers.
CmpFactor(g, p, q) ==
    BigCmp(BigPowMul(g.num, q, g.root), BigPowMul(g.den, p, g.root))

\* 1 + 0.35 and 1 - 0.35
HiFactor == [num |-> 100 + CagrCap, den |-> 100, root |-> 1]
LoFactor == [num |-> 100 - CagrCap, den |-> 100, root |-> 1]

\* (end / start) ** (1 / years): division by zero is an error of its own
DivError == [error |-> "ZeroDivision"]

RawFactor(start, end, years) ==
    IF start = 0 \/ years = 0 THEN DivError
    ELSE [num |-> end, den |-> start, root |-> years]

ClampNoFloor(g) ==
    IF g = DivError THEN DivError
    ELSE IF CmpFactor(g, 100 + CagrCap, 100) > 0 THEN HiFactor ELSE g

\* cagr = max(min(cagr, 0.35), -0.35), on the factor 1 + cagr
Clamp(g) ==
    IF g = DivError THEN DivError
    ELSE LET m == IF CmpFactor(g, 100 + CagrCap, 100) > 0 THEN HiFactor ELSE g
         IN  IF CmpFactor(m, 100 - CagrCap, 100) < 0 THEN LoFactor ELSE m

----------------------------------------------------------------------------
(* Values of the chart: coef * G^pow *)

Amount(n) == [coef |-> n, pow |-> 0]

\* last_value * (1 + cagr); 0 * G = 0
TimesFactor(v) ==
    IF v.coef = 0 THEN v ELSE [coef |-> v.coef, pow |-> v.pow + 1]

\* min(last_value, 0) in place of max
CapZero(v) == IF v.coef <= 0 THEN v ELSE Amount(0)

\* max(last_value, 0): G > 0, so the sign is that of coef
FloorZero(v) == IF v.coef >= 0 THEN v ELSE Amount(0)

----------------------------------------------------------------------------
(* project_series_cagr *)

None == [none |-> TRUE]
NotCalled == [none |-> FALSE, called |-> FALSE]

\* df_series.sort_values("Year"): the default kind is quicksort, which is
\* not stable, so rows of equal Year may come out in any order
SortValuesYear(s) ==
    IF \A i \in 1..(Len(s) - 1) : s[i].Year < s[i + 1].Year
    THEN {s}     \* distinct years already ascending: one outcome
    ELSE {t \in {[i \in 1..Len(s) |-> s[p[i]]] : p \in Perms(Len(s))} :
             \A i \in 1..(Len(s) - 1) : t[i].Year <= t[i + 1].Year}

RecentOf(s) == SelectSeq(s, LAMBDA r : r.Year >= WindowStart)

\* for y in range(last_year + 1, 2031): ...
RECURSIVE ProjectionLoop(_, _)
ProjectionLoop(y, last_value) ==
    IF y > HorizonEnd THEN <<>>
    ELSE LET v == TimesFactor(last_value)
         IN  <<[Year |-> y, Final_FOB_Value |-> FloorZero(v)]>>
                 \o ProjectionLoop(y + 1, v)

TooFewRecent(recent) == Len(recent) < 2

BadStartNegativeOnly(start) == start < 0

BadStart(start) == start <= 0

ProjectFromLastYear(s) ==
    ProjectionLoop(s[Len(s)].Year, Amount(s[Len(s)].Final_FOB_Value))

\* last_value, last_year = df_series.iloc[-1]; the loop from last_year + 1
ProjectFrom(s) ==
    ProjectionLoop(s[Len(s)].Year + 1, Amount(s[Len(s)].Final_FOB_Value))

\* The body of project_series_cagr after the sort; s is the sorted frame.
ProjectSorted(s) ==
    LET recent == RecentOf(s) IN
    IF TooFewRecent(recent) THEN None
    ELSE LET start == recent[1].Final_FOB_Value
             end   == recent[Len(recent)].Final_FOB_Value
         IN  IF BadStart(start) THEN None
             ELSE LET years == recent[Len(recent)].Year - recent[1].Year
                  IN  IF years = 0 THEN None
                      ELSE LET cagr == Clamp(RawFactor(start, end, years))
                           IN  [none |-> FALSE, called |-> TRUE,
                                cagr |-> cagr,
                                rows |-> IF cagr = DivError THEN <<>>
                                         ELSE ProjectFrom(s)]

\* project_series_cagr(subset) as the page calls it: the years of a grouped
\* subset are distinct, so the sort has one outcome
ProjectSeriesCagr(s) == ProjectSorted(CHOOSE t \in SortValuesYear(s) : TRUE)

\* a call that hit the division by zero raised instead of returning
RaisedZeroDivision(r) == r # None /\ r # NotCalled /\ r.cagr = DivError

----------------------------------------------------------------------------
(* SpecCagr: project_series_cagr on any small series *)

\* selected: "Home" or the code of a display entry
HomeSel == [home |-> TRUE, code |-> 0]
CodeSel(c) == [home |-> FALSE, code |-> c]

CagrYears == {2019, 2020, 2022, 2024, 2030}

CagrVals == {0, 1, 2, 4}

SeriesRows == [Year : CagrYears, Final_FOB_Value : CagrVals]

SeriesInputs == UNION {[1..n -> SeriesRows] : n \in 0..MaxLen}

Idle ==
    /\ page = "none" /\ pc = "idle" /\ df = {} /\ direction = "none"
    /\ selected = HomeSel /\ show_projection = FALSE /\ data = {}
    /\ top10 = <<>> /\ grouped = <<>> /\ complete = <<>>
    /\ chart_data = <<>> /\ notices = <<>> /\ warnings = <<>>
    /\ rendered = {} /\ pie_year = 0 /\ pie_data = <<>> /\ pie_table = <<>>
    /\ mdf = {} /\ hs_selected = {} /\ view_mode = "none" /\ rank_year = 0
    /\ ranking = <<>>
    /\ eu_df = {} /\ metric = "none" /\ ts = <<>> /\ cagr_df = <<>>
    /\ matrix = <<>>

InitCagr ==
    /\ df_series \in SeriesInputs
    /\ sorted_series = <<>>
    /\ ret = NotCalled
    /\ Idle

CallProject ==
    /\ ret = NotCalled
    /\ \E s \in SortValuesYear(df_series) :
          /\ sorted_series' = s
          /\ ret' = ProjectSorted(s)
    /\ UNCHANGED <<df_series>>
    /\ UNCHANGED pageVars

NextCagr == CallProject

SpecCagr == InitCagr /\ [][NextCagr]_vars

----------------------------------------------------------------------------
(* Claims on project_series_cagr (SpecCagr) *)

Called == ret # NotCalled

Returned == Called /\ ret # None

\* positions of the sorted frame inside the analysis window
RecentIdx == {i \in DOMAIN sorted_series : sorted_series[i].Year >= WindowStart}

FirstRecent == sorted_series[CHOOSE i \in RecentIdx : \A j \in RecentIdx : i <= j]

LastRecent == sorted_series[CHOOSE i \in RecentIdx : \A j \in RecentIdx : i >= j]

Row(y, v) == [Year |-> y, Final_FOB_Value |-> v]

\* C1: after the call, a projection result is returned if and only if the
\* series has at least 2 entries with Year >= 2020, the first of them (in
\* year order) has a value > 0 and the last of them has another year than
\* the first; otherwise None is returned; no call divides by zero.  A lone
\* (2020, v) and a series starting (2020, 0) are invalid, and
\* [(2020, v), (2024, v)] with v > 0 is valid.
C1_ValidIff ==
    Called =>
        /\ ~RaisedZeroDivision(ret)
        /\ (ret # None) <=>
              /\ Cardinality({i \in DOMAIN df_series :
                                 df_series[i].Year >= WindowStart}) >= 2
              /\ FirstRecent.Final_FOB_Value > 0
              /\ LastRecent.Year # FirstRecent.Year
        /\ (df_series = <<Row(2020, 1)>> => ret = None)
        /\ (df_series = <<Row(2020, 0), Row(2024, 2)>> => ret = None)
        /\ (df_series = <<Row(2020, 1), Row(2024, 1)>> => ret # None)

\* C1 witness: a result returned for a series given out of year order
C1_Witness ==
    /\ Returned
    /\ Len(df_series) = 3
    /\ df_series[1].Year > df_series[3].Year
    /\ df_series[2].Year < WindowStart

\* the unclamped factor (end / start)^(1 / yearsSpan) of a returned result
RawOfSorted ==
    [num  |-> LastRecent.Final_FOB_Value,
     den  |-> FirstRecent.Final_FOB_Value,
     root |-> LastRecent.Year - FirstRecent.Year]

\* C2: the rate of every returned result lies in [-0.35, +0.35]; it is the
\* raw rate when that is inside the bound, +0.35 when the raw rate is above
\* (start 1 in 2020, end 4 in 2024: 4^(1/4) - 1 > 0.35) and -0.35 when it
\* is below (in particular end = 0, raw rate -1).
C2_Clamped ==
    Returned =>
        /\ CmpFactor(ret.cagr, 100 + CagrCap, 100) <= 0
        /\ CmpFactor(ret.cagr, 100 - CagrCap, 100) >= 0
        /\ ret.cagr = IF CmpFactor(RawOfSorted, 100 + CagrCap, 100) > 0
                        THEN HiFactor
                      ELSE IF CmpFactor(RawOfSorted, 100 - CagrCap, 100) < 0
                        THEN LoFactor
                      ELSE RawOfSorted
        /\ (LastRecent.Final_FOB_Value = 0 => ret.cagr = LoFactor)
        /\ (df_series = <<Row(2020, 1), Row(2024, 4)>> => ret.cagr = HiFactor)

\* C2 witness: a shrinking series with a non-zero end clamped to -0.35
C2_Witness ==
    /\ Returned
    /\ ret.cagr = LoFactor
    /\ LastRecent.Final_FOB_Value > 0

\* the last historical point of the sorted frame
LastPeriod == sorted_series[Len(sorted_series)].Year

LastValue == sorted_series[Len(sorted_series)].Final_FOB_Value

\* C3: a returned projection holds exactly one point per year
\* lastPeriod+1 .. 2030, ascending (none when lastPeriod >= 2030), and its
\* k-th value is lastValue * (1+r)^k floored at 0; from lastPeriod = 2024
\* these are the 6 points 2025..2030 with lastValue * (1+r)^1 .. ^6.
C3_ProjectionContents ==
    Returned =>
        /\ Len(ret.rows) = Max2(HorizonEnd - LastPeriod, 0)
        /\ \A k \in DOMAIN ret.rows :
              /\ ret.rows[k].Year = LastPeriod + k
              /\ ret.rows[k].Final_FOB_Value =
                    IF LastValue = 0 THEN Amount(0)
                    ELSE [coef |-> LastValue, pow |-> k]
        /\ (LastPeriod = 2024 =>
              [k \in DOMAIN ret.rows |-> ret.rows[k].Year]
                  = <<2025, 2026, 2027, 2028, 2029, 2030>>)

\* C3 witness: six projected points from a positive value in 2024
C3_Witness ==
    /\ Returned
    /\ LastPeriod = 2024
    /\ LastValue > 0
    /\ Len(ret.rows) = 6
    /\ ret.rows[6] = [Year |-> 2030,
                      Final_FOB_Value |-> [coef |-> LastValue, pow |-> 6]]

\* a returned projection that is empty because the series ends in 2030
C3_EmptyAtHorizon == Returned /\ LastPeriod >= HorizonEnd /\ ret.rows = <<>>

----------------------------------------------------------------------------
(* The trade page (Poland_Turkey_Trade_App.py): tables and inputs *)

TradeYears == {2019, 2020, 2022, 2024, 2031}

\* codes of the chosen level (zero-padded, so ordered like their numbers)
TradeCodes == {1, 2}

TradeVals == {0, 1, 2}

Directions == {"Turkey_to_Poland", "Poland_to_Turkey"}

\* one record of the table; Code is the column of the chosen level
TradeRow(y, d, c, v) ==
    [Year |-> y, Direction |-> d, Code |-> c, Final_FOB_Value |-> v]

SmallRows ==
    {TradeRow(y, "Turkey_to_Poland", c, v) :
        y \in TradeYears, c \in TradeCodes, v \in TradeVals}
    \cup {TradeRow(2024, "Poland_to_Turkey", 1, 1)}

RECURSIVE SubsetsUpTo(_, _)
SubsetsUpTo(S, k) ==
    IF k = 0 THEN {{}}
    ELSE LET prev == SubsetsUpTo(S, k - 1)
         IN  prev \cup {t \cup {x} : t \in prev, x \in S}

SmallTables == SubsetsUpTo(SmallRows, MaxRows)

\* the tables tried with the other direction selected
OtherDirectionTables == SubsetsUpTo(SmallRows, 2)

\* Tables with more categories than the ranking keeps: one record per
\* category in 2024, values rising (asc) or falling with the code, and the
\* value of category t raised by one so that it ties with a neighbour.
WideN == TopN + WideExtra

WideVal(c, t, asc) ==
    (IF asc THEN c ELSE WideN + 1 - c) + (IF c = t THEN 1 ELSE 0)

WideTable(t, asc) ==
    {TradeRow(2024, "Turkey_to_Poland", c, WideVal(c, t, asc)) : c \in 1..WideN}

WideTables == {WideTable(t, asc) : t \in 0..WideN, asc \in BOOLEAN}

\* Tables of one year with shares of every size: 50 / 30 / 20 per cent, and
\* a share below 0.01 per cent beside one below 1 per cent.
ShareTable(v1, v2, v3) ==
    {TradeRow(2024, "Turkey_to_Poland", 1, v1),
     TradeRow(2024, "Turkey_to_Poland", 2, v2),
     TradeRow(2024, "Turkey_to_Poland", 3, v3)}

ShareTables == {ShareTable(50, 30, 20), ShareTable(1, 100, 20000)}

----------------------------------------------------------------------------
(* Frames: filters, groupby-sum, sort, head *)

\* frame.empty
IsEmptyNever(frame) == FALSE

IsEmpty(frame) == frame = {}

RECURSIVE SumValues(_)
SumValues(S) ==
    IF S = {} THEN 0
    ELSE LET r == CHOOSE x \in S : TRUE
         IN  r.Final_FOB_Value + SumValues(S \ {r})

\* data[data["Direction"] == direction_key]
DirectionFilter(rows, direction_key) ==
    {r \in rows : r.Direction = direction_key}

\* data[data[level] == code]
CodeFilter(rows, sel) ==
    IF sel.home THEN rows ELSE {r \in rows : r.Code = sel.code}

\* data["Year"].max(); NaN (0 here) on an empty frame
LatestYear(rows) ==
    IF rows = {} THEN 0
    ELSE CHOOSE y \in {r.Year : r \in rows} : \A r \in rows : r.Year <= y

\* rows.groupby(level, as_index=False)["Final_FOB_Value"].sum():
\* one row per code, codes ascending
GroupByLevel(rows) ==
    LET codes == SortedInts({r.Code : r \in rows})
    IN  [i \in DOMAIN codes |->
            [Code |-> codes[i],
             Final_FOB_Value |-> SumValues({r \in rows : r.Code = codes[i]})]]

\* the grouped totals of the records of positive value only
GroupByYearLevelPositive(rows) ==
    LET pos == {r \in rows : r.Final_FOB_Value > 0}
        years == SortedInts({r.Year : r \in pos})
    IN  FlattenSeq(
          [i \in DOMAIN years |->
             LET g == GroupByLevel({r \in pos : r.Year = years[i]})
             IN  [j \in DOMAIN g |->
                     [Year |-> years[i], Code |-> g[j].Code,
                      Final_FOB_Value |-> g[j].Final_FOB_Value]]])

\* rows.groupby(["Year", level], as_index=False)["Final_FOB_Value"].sum():
\* one row per (Year, code) present, ordered by Year, then code
GroupByYearLevel(rows) ==
    LET years == SortedInts({r.Year : r \in rows})
    IN  FlattenSeq(
          [i \in DOMAIN years |->
             LET g == GroupByLevel({r \in rows : r.Year = years[i]})
             IN  [j \in DOMAIN g |->
                     [Year |-> years[i], Code |-> g[j].Code,
                      Final_FOB_Value |-> g[j].Final_FOB_Value]]])

\* The orders of a set of [key, row] that are non-increasing in key.
RECURSIVE DescOrders(_)
DescOrders(S) ==
    IF S = {} THEN {<<>>}
    ELSE UNION {{<<e.row>> \o t : t \in DescOrders(S \ {e})} :
                   e \in {e \in S : \A q \in S : q.key <= e.key}}

RECURSIVE AscOrders(_)
AscOrders(S) ==
    IF S = {} THEN {<<>>}
    ELSE UNION {{<<e.row>> \o t : t \in AscOrders(S \ {e})} :
                   e \in {e \in S : \A q \in S : q.key >= e.key}}

SortValuesAscending(frame) ==
    AscOrders({[key |-> frame[i].Final_FOB_Value, row |-> frame[i]] :
                  i \in DOMAIN frame})

\* frame.sort_values("Final_FOB_Value", ascending=False): the default kind
\* is quicksort, which is not stable, so rows of equal value may come out
\* in any order
SortValuesDesc(frame) ==
    DescOrders({[key |-> frame[i].Final_FOB_Value, row |-> frame[i]] :
                   i \in DOMAIN frame})

\* the frame without the cut
HeadAll(frame) == frame

\* frame.head(10)
HeadTopN(frame) ==
    SubSeq(frame, 1, IF Len(frame) < TopN THEN Len(frame) ELSE TopN)

\* the rankings the TOP 10 BLOCK can produce for the filtered table
Top10Of(rows) ==
    {HeadTopN(o) :
        o \in SortValuesDesc(GroupByLevel({r \in rows :
                                             r.Year = LatestYear(rows)}))}

----------------------------------------------------------------------------
(* The per-category loop of the time series block *)

RECURSIVE Unique(_)
\* grouped[level].unique(): in order of first appearance
Unique(s) ==
    IF s = <<>> THEN <<>>
    ELSE <<Head(s)>> \o Unique(SelectSeq(Tail(s), LAMBDA x : x # Head(s)))

CodesOf(g) == Unique([i \in DOMAIN g |-> g[i].Code])

\* subset = grouped, the rows of the other categories included
SubsetAllCodes(g, c) == g

\* subset = grouped[grouped[level] == c]
SubsetOf(g, c) == SelectSeq(g, LAMBDA r : r.Code = c)

\* subset[subset["Final_FOB_Value"] > 0].shape[0] < 2
FewPositive(subset) ==
    Len(SelectSeq(subset, LAMBDA r : r.Final_FOB_Value > 0)) < 2

ChartRow(y, c, v, seg) ==
    [Year |-> y, Code |-> c, Final_FOB_Value |-> v, Segment |-> seg]

\* hist_full.merge(subset, how="inner") without the fillna
HistInnerMerge(c, subset) ==
    FlattenSeq(
      [k \in 1..(LastYear - FirstYear + 1) |->
         LET y == FirstYear + k - 1
             m == SelectSeq(subset, LAMBDA r : r.Year = y)
         IN  [j \in DOMAIN m |->
                 ChartRow(y, c, Amount(m[j].Final_FOB_Value), "Historical")]])

\* hist = hist_full.merge(subset, on=["Year", level], how="left"), fillna(0):
\* for each year 2013..2024 the matching rows of subset, or one row of 0
HistOf(c, subset) ==
    FlattenSeq(
      [k \in 1..(LastYear - FirstYear + 1) |->
         LET y == FirstYear + k - 1
             m == SelectSeq(subset, LAMBDA r : r.Year = y)
         IN  IF m = <<>> THEN <<ChartRow(y, c, Amount(0), "Historical")>>
             ELSE [j \in DOMAIN m |->
                      ChartRow(y, c, Amount(m[j].Final_FOB_Value),
                               "Historical")]])

SeriesOf(subset) ==
    [i \in DOMAIN subset |->
        [Year |-> subset[i].Year,
         Final_FOB_Value |-> subset[i].Final_FOB_Value]]

\* one pass of the loop body: the frame appended to complete
MergedOf(c, subset, show) ==
    LET hist == HistOf(c, subset) IN
    IF ~show THEN hist
    ELSE LET proj == ProjectSeriesCagr(SeriesOf(subset))
         IN  IF proj # None /\ proj.rows # <<>>
             THEN LET last == subset[Len(subset)]
                      last_hist == ChartRow(last.Year, c,
                                            Amount(last.Final_FOB_Value),
                                            "Projection")
                  IN  hist \o <<last_hist>>
                        \o [k \in DOMAIN proj.rows |->
                               ChartRow(proj.rows[k].Year, c,
                                        proj.rows[k].Final_FOB_Value,
                                        "Projection")]
             ELSE hist

\* st.info(...) of the loop body
NoticeDue(subset, show) == show /\ FewPositive(subset)

----------------------------------------------------------------------------
(* The share structure block *)

NaN == [nan |-> TRUE, num |-> 0, den |-> 0]

\* value / total without the factor 100
ShareFraction(v, total) ==
    IF total = 0 THEN NaN ELSE [nan |-> FALSE, num |-> v, den |-> total]

\* (value / total) * 100, exactly; 0 / 0 is NaN
ShareOf(v, total) ==
    IF total = 0 THEN NaN ELSE [nan |-> FALSE, num |-> 100 * v, den |-> total]

\* x >= p/q and x < p/q; every comparison with NaN is false
ShareGE(x, p, q) == ~x.nan /\ x.num * q >= p * x.den
ShareLT(x, p, q) == ~x.nan /\ x.num * q < p * x.den

\* f"{x:.2f}" in hundredths: the nearest, ties to even
TwoDecimals(x) ==
    LET n == 100 * x.num
        q == n \div x.den
        r == n % x.den
    IN  IF 2 * r > x.den \/ (2 * r = x.den /\ q % 2 = 1) THEN q + 1 ELSE q

\* format_share
FormatShare(x) ==
    IF ShareLT(x, 1, 100) THEN [text |-> "<0.01", hundredths |-> 0]
    ELSE IF x.nan THEN [text |-> "nan", hundredths |-> 0]
    ELSE [text |-> "number", hundredths |-> TwoDecimals(x)]

\* pie_data with Share_% and the Display label flag
PieDataOf(rows, year) ==
    LET g == GroupByLevel({r \in rows : r.Year = year})
        total == SeqSum([i \in DOMAIN g |-> g[i].Final_FOB_Value])
    IN  [i \in DOMAIN g |->
            LET sh == ShareOf(g[i].Final_FOB_Value, total)
            IN  [Code |-> g[i].Code,
                 Final_FOB_Value |-> g[i].Final_FOB_Value,
                 Share |-> sh,
                 Labelled |-> ShareGE(sh, 1, 1)]]

\* pie_table.sort_values("Share_%", ascending=False): NaN rows last in
\* their order, equal shares in any order
SortShareDesc(pd) ==
    IF \A i \in DOMAIN pd : pd[i].Share.nan THEN {pd}
    ELSE DescOrders({[key |-> pd[i].Share.num, row |-> pd[i]] :
                        i \in DOMAIN pd})

\* Share_Display, then the tiny rows put first: pd.concat([tiny, normal])
DisplayTinyFirst(sorted) ==
    LET shown == [i \in DOMAIN sorted |->
                     [Code |-> sorted[i].Code, Share |-> sorted[i].Share,
                      Share_Display |-> FormatShare(sorted[i].Share)]]
        tiny   == SelectSeq(shown, LAMBDA r : ShareLT(r.Share, 1, 100))
        normal == SelectSeq(shown, LAMBDA r : ShareGE(r.Share, 1, 100))
    IN  tiny \o normal

\* Share_Display, then pd.concat([normal, tiny])
DisplayTable(sorted) ==
    LET shown == [i \in DOMAIN sorted |->
                     [Code |-> sorted[i].Code, Share |-> sorted[i].Share,
                      Share_Display |-> FormatShare(sorted[i].Share)]]
        tiny   == SelectSeq(shown, LAMBDA r : ShareLT(r.Share, 1, 100))
        normal == SelectSeq(shown, LAMBDA r : ShareGE(r.Share, 1, 100))
    IN  normal \o tiny

----------------------------------------------------------------------------
(* The trade page: one run of the script *)

NoDataMsg == "No trade data available for the selected filters."
NoChartMsg == "Not enough data available to generate chart for this selection."
NoYearMsg == "No data available for this year."

InitTrade ==
    /\ page = "Trade"
    /\ pc = "start"
    /\ \/ /\ direction = "Turkey_to_Poland"
          /\ df \in SmallTables \cup WideTables \cup ShareTables
       \/ /\ direction = "Poland_to_Turkey"
          /\ df \in OtherDirectionTables
    /\ show_projection \in BOOLEAN
    /\ selected \in {HomeSel}
          \cup {CodeSel(r.Code) : r \in DirectionFilter(df, direction)}
    /\ data = {} /\ top10 = <<>> /\ grouped = <<>> /\ complete = <<>>
    /\ chart_data = <<>> /\ notices = <<>> /\ warnings = <<>>
    /\ rendered = {} /\ pie_year = 0 /\ pie_data = <<>> /\ pie_table = <<>>
    /\ mdf = {} /\ hs_selected = {} /\ view_mode = "none" /\ rank_year = 0
    /\ ranking = <<>>
    /\ eu_df = {} /\ metric = "none" /\ ts = <<>> /\ cagr_df = <<>>
    /\ matrix = <<>>

\* lines 97-137: the filters and the safety check
SafetyCheck ==
    /\ page = "Trade" /\ pc = "start"
    /\ LET d == CodeFilter(DirectionFilter(df, direction), selected)
       IN  /\ data' = d
           /\ IF IsEmpty(d)
              THEN /\ warnings' = Append(warnings, NoDataMsg)
                   /\ pc' = "stopped"
              ELSE /\ warnings' = warnings
                   /\ pc' = IF selected.home THEN "top10" ELSE "timeseries"
    /\ UNCHANGED <<page, df, direction, selected, show_projection, top10,
                   grouped, complete, chart_data, notices, rendered,
                   pie_year, pie_data, pie_table, mdf, hs_selected,
                   view_mode, rank_year, ranking>>
    /\ UNCHANGED cagrVars
    /\ UNCHANGED euVars

\* lines 139-205: the TOP 10 BLOCK and its descriptions (Home only)
Top10Block ==
    /\ page = "Trade" /\ pc = "top10"
    /\ \E t \in Top10Of(data) : top10' = t
    /\ rendered' = rendered \cup {"top10_bar"}
    /\ pc' = "timeseries"
    /\ UNCHANGED <<page, df, direction, selected, show_projection, data,
                   grouped, complete, chart_data, notices, warnings,
                   pie_year, pie_data, pie_table, mdf, hs_selected,
                   view_mode, rank_year, ranking>>
    /\ UNCHANGED cagrVars
    /\ UNCHANGED euVars

\* lines 207-323: grouped totals, the per-category loop, the line chart
TimeSeries ==
    /\ page = "Trade" /\ pc = "timeseries"
    /\ LET top_codes == {top10[i].Code : i \in DOMAIN top10}
           data_for_chart == IF selected.home
                             THEN {r \in data : r.Code \in top_codes}
                             ELSE data
           g == GroupByYearLevel(data_for_chart)
           cats == CodesOf(g)
           frames == [i \in DOMAIN cats |->
                         MergedOf(cats[i], SubsetOf(g, cats[i]),
                                  show_projection)]
           told == SelectSeq(cats, LAMBDA c :
                                NoticeDue(SubsetOf(g, c), show_projection))
       IN  /\ grouped' = g
           /\ complete' = frames
           /\ notices' = notices \o [i \in DOMAIN told |-> [code |-> told[i]]]
           /\ IF frames = <<>>
              THEN /\ warnings' = Append(warnings, NoChartMsg)
                   /\ pc' = "stopped"
                   /\ UNCHANGED <<chart_data, rendered>>
              ELSE /\ chart_data' = BagOfSeq(FlattenSeq(frames))
                   /\ rendered' = rendered \cup {"line_chart"}
                   /\ pc' = IF selected.home THEN "share" ELSE "description"
                   /\ UNCHANGED warnings
    /\ UNCHANGED <<page, df, direction, selected, show_projection, data,
                   top10, pie_year, pie_data, pie_table, mdf, hs_selected,
                   view_mode, rank_year, ranking>>
    /\ UNCHANGED cagrVars
    /\ UNCHANGED euVars

\* lines 324-450: the share structure of a chosen year (Home only)
ShareStructure ==
    /\ page = "Trade" /\ pc = "share"
    /\ \E y \in {r.Year : r \in data} :
          LET pd == PieDataOf(data, y) IN
          /\ pie_year' = y
          /\ IF pd = <<>>
             THEN /\ warnings' = Append(warnings, NoYearMsg)
                  /\ pc' = "stopped"
                  /\ UNCHANGED <<pie_data, pie_table, rendered>>
             ELSE /\ pie_data' = pd
                  /\ \E s \in SortShareDesc(pd) : pie_table' = DisplayTable(s)
                  /\ rendered' = rendered \cup {"pie", "share_table"}
                  /\ pc' = "done"
                  /\ UNCHANGED warnings
    /\ UNCHANGED <<page, df, direction, selected, show_projection, data,
                   top10, grouped, complete, chart_data, notices, mdf,
                   hs_selected, view_mode, rank_year, ranking>>
    /\ UNCHANGED cagrVars
    /\ UNCHANGED euVars

\* lines 451-460: the description of the selected code
DescriptionDisplay ==
    /\ page = "Trade" /\ pc = "description"
    /\ rendered' = rendered \cup {"description"}
    /\ pc' = "done"
    /\ UNCHANGED <<page, df, direction, selected, show_projection, data,
                   top10, grouped, complete, chart_data, notices, warnings,
                   pie_year, pie_data, pie_table, mdf, hs_selected,
                   view_mode, rank_year, ranking>>
    /\ UNCHANGED cagrVars
    /\ UNCHANGED euVars

----------------------------------------------------------------------------
(* The military page (pages/Military_Comparator.py) *)

MilYears == {2023, 2024}
MilCodes == {"8710", "9301"}
Importers == {"Poland", "Germany"}

MilRows ==
    [refYear : MilYears, cmdCode : MilCodes, Importer : Importers,
     primaryValue : {0, 1}]

NoMilDataMsg == "No data for selected HS4 codes."

RECURSIVE SumPrimary(_)
SumPrimary(S) ==
    IF S = {} THEN 0
    ELSE LET r == CHOOSE x \in S : TRUE
         IN  r.primaryValue + SumPrimary(S \ {r})

\* the ranking without the filter on refYear
RankingAnyYear(rows, year) ==
    DescOrders({[key |-> SumPrimary({r \in rows : r.Importer = c}),
                 row |-> [Importer |-> c,
                          primaryValue |->
                              SumPrimary({r \in rows : r.Importer = c})]] :
                   c \in {r.Importer : r \in rows}})

\* df[df["refYear"] == rank_year].groupby("Importer")["primaryValue"].sum()
\*   .sort_values("primaryValue", ascending=False)
RankingOf(rows, year) ==
    LET inYear == {r \in rows : r.refYear = year}
    IN  DescOrders({[key |-> SumPrimary({r \in inYear : r.Importer = c}),
                     row |-> [Importer |-> c,
                              primaryValue |->
                                  SumPrimary({r \in inYear : r.Importer = c})]] :
                       c \in {r.Importer : r \in inYear}})

InitMilitary ==
    /\ page = "Military"
    /\ pc = "start"
    /\ mdf \in SubsetsUpTo(MilRows, MaxMilRows)
    /\ hs_selected \in SUBSET {r.cmdCode : r \in mdf}
    /\ view_mode \in {"Home (EU Comparison)", "Country Focus"}
    /\ df = {} /\ direction = "none" /\ selected = HomeSel
    /\ show_projection = FALSE
    /\ data = {} /\ top10 = <<>> /\ grouped = <<>> /\ complete = <<>>
    /\ chart_data = <<>> /\ notices = <<>> /\ warnings = <<>>
    /\ rendered = {} /\ pie_year = 0 /\ pie_data = <<>> /\ pie_table = <<>>
    /\ rank_year = 0 /\ ranking = <<>>
    /\ eu_df = {} /\ metric = "none" /\ ts = <<>> /\ cagr_df = <<>>
    /\ matrix = <<>>

\* lines 72-76: the HS-code filter and its empty check
MilFilter ==
    /\ page = "Military" /\ pc = "start"
    /\ LET d == {r \in mdf : r.cmdCode \in hs_selected}
       IN  /\ data' = d
           /\ IF IsEmpty(d)
              THEN /\ warnings' = Append(warnings, NoMilDataMsg)
                   /\ pc' = "stopped"
              ELSE /\ warnings' = warnings
                   /\ pc' = IF view_mode = "Home (EU Comparison)"
                            THEN "mil_home" ELSE "mil_country"
    /\ UNCHANGED <<page, df, direction, selected, show_projection, top10,
                   grouped, complete, chart_data, notices, rendered,
                   pie_year, pie_data, pie_table, mdf, hs_selected,
                   view_mode, rank_year, ranking>>
    /\ UNCHANGED cagrVars
    /\ UNCHANGED euVars

\* lines 79-162: the EU comparison chart and the ranking of a chosen year
MilHome ==
    /\ page = "Military" /\ pc = "mil_home"
    /\ \E y \in FirstYear..LastYear :
          /\ rank_year' = y
          /\ \E o \in RankingOf(data, y) : ranking' = o
    /\ rendered' = rendered \cup {"eu_line", "rank_bar"}
    /\ pc' = "done"
    /\ UNCHANGED <<page, df, direction, selected, show_projection, data,
                   top10, grouped, complete, chart_data, notices, warnings,
                   pie_year, pie_data, pie_table, mdf, hs_selected,
                   view_mode>>
    /\ UNCHANGED cagrVars
    /\ UNCHANGED euVars

\* lines 164-321: the country view, its composition pies and their notices
MilCountry ==
    /\ page = "Military" /\ pc = "mil_country"
    /\ \E focus \in {r.Importer : r \in data}, compare \in BOOLEAN,
          y \in FirstYear..LastYear :
          LET pie_focus  == {r \in data : r.Importer = focus /\ r.refYear = y}
              pie_poland == {r \in data :
                                r.Importer = "Poland" /\ r.refYear = y}
              both == compare /\ focus # "Poland"
          IN  /\ pie_year' = y
              /\ rendered' = rendered \cup {"country_line", "legend"}
                    \cup (IF pie_focus # {} THEN {"pie_focus"} ELSE {})
                    \cup (IF both /\ pie_poland # {}
                          THEN {"pie_poland"} ELSE {})
              /\ notices' = notices
                    \o (IF pie_focus = {}
                        THEN <<[country |-> focus, year |-> y]>> ELSE <<>>)
                    \o (IF both /\ pie_poland = {}
                        THEN <<[country |-> "Poland", year |-> y]>>
                        ELSE <<>>)
    /\ pc' = "done"
    /\ UNCHANGED <<page, df, direction, selected, show_projection, data,
                   top10, grouped, complete, chart_data, warnings,
                   pie_data, pie_table, mdf, hs_selected, view_mode,
                   rank_year, ranking>>
    /\ UNCHANGED cagrVars
    /\ UNCHANGED euVars

----------------------------------------------------------------------------
(* The EU page (pages/EU_Trade_with_Turkey.py) *)

EuYears == {2020, 2022, 2024}
EuCountries == {"Poland", "Germany"}
EuVals == {0, 1, 2}

\* the names the page takes for Turkey (compared in lower case)
TurkeyNames == {"Turkey"}

\* groupby sorts its keys: the countries in alphabetical order
CountryOrder == <<"Germany", "Poland">>

Metrics ==
    {"Total Trade Volume", "Exports to Turkey from EU",
     "Exports to EU from Turkey"}

EuRow(y, imp, exp, v) ==
    [Year |-> y, Importer |-> imp, Exporter |-> exp, Value |-> v]

\* exports of both countries to Turkey, exports of Turkey to Poland, and a
\* record that does not involve Turkey
EuRows ==
    {EuRow(y, "Turkey", c, v) : y \in EuYears, c \in EuCountries, v \in EuVals}
    \cup {EuRow(y, "Poland", "Turkey", 1) : y \in EuYears}
    \cup {EuRow(2024, "Poland", "Germany", 1)}

NoSelectionMsg == "No data available for this selection."
NoCagrMsg == "Not enough data to calculate CAGR."
NoMatrixMsg == "Not enough data to build Growth vs Size matrix."

RECURSIVE SumValue(_)
SumValue(S) ==
    IF S = {} THEN 0
    ELSE LET r == CHOOSE x \in S : TRUE
         IN  r.Value + SumValue(S \ {r})

\* df[is_tr_importer & (~is_tr_exporter)] with Country = Exporter
EuToTr(rows) ==
    {[Year |-> r.Year, Country |-> r.Exporter, Value |-> r.Value,
      Flow |-> "EU_to_TR"] :
        r \in {q \in rows : q.Importer \in TurkeyNames
                              /\ q.Exporter \notin TurkeyNames}}

\* df[is_tr_exporter & (~is_tr_importer)] with Country = Importer
TrToEu(rows) ==
    {[Year |-> r.Year, Country |-> r.Importer, Value |-> r.Value,
      Flow |-> "TR_to_EU"] :
        r \in {q \in rows : q.Exporter \in TurkeyNames
                              /\ q.Importer \notin TurkeyNames}}

\* the (Year, Country) keys of a set of rows, Year ascending, then Country
EuKeys(rows) ==
    LET years == SortedInts({r.Year : r \in rows})
    IN  FlattenSeq(
          [i \in DOMAIN years |->
             LET cs == SelectSeq(CountryOrder, LAMBDA c :
                          \E r \in rows : r.Year = years[i] /\ r.Country = c)
             IN  [j \in DOMAIN cs |-> [Year |-> years[i], Country |-> cs[j]]]])

\* the rows ordered by (Year, Country) but not summed: one row per value
EuNoGroup(rows) ==
    LET keys == EuKeys(rows)
    IN  FlattenSeq(
          [i \in DOMAIN keys |->
             LET vs == SortedInts({r.Value : r \in
                          {q \in rows : q.Year = keys[i].Year
                                          /\ q.Country = keys[i].Country}})
             IN  [j \in DOMAIN vs |->
                     [Year |-> keys[i].Year, Country |-> keys[i].Country,
                      Value |-> vs[j]]]])

\* rows.groupby(["Year", "Country"], as_index=False)["Value"].sum()
EuGroupBy(rows) ==
    LET keys == EuKeys(rows)
    IN  [i \in DOMAIN keys |->
            [Year |-> keys[i].Year, Country |-> keys[i].Country,
             Value |-> SumValue({r \in rows : r.Year = keys[i].Year
                                    /\ r.Country = keys[i].Country})]]

\* the measure selected: data with its Country column
MeasureOf(rows, m) ==
    IF m = "Exports to Turkey from EU" THEN EuToTr(rows)
    ELSE IF m = "Exports to EU from Turkey" THEN TrToEu(rows)
    ELSE LET g == EuGroupBy(EuToTr(rows) \cup TrToEu(rows))
         IN  {[Year |-> g[i].Year, Country |-> g[i].Country,
               Value |-> g[i].Value, Flow |-> "Total"] : i \in DOMAIN g}

RECURSIVE Pow(_, _)
Pow(a, n) == IF n = 0 THEN 1 ELSE a * Pow(a, n - 1)

\* a <= b for two factors (num/den)^(1/root)
FactorLE(a, b) ==
    Pow(a.num, b.root) * Pow(b.den, a.root)
        <= Pow(b.num, a.root) * Pow(a.den, b.root)

\* The orders of a set of rows that are non-increasing in CAGR.
RECURSIVE DescCagrOrders(_)
DescCagrOrders(S) ==
    IF S = {} THEN {<<>>}
    ELSE UNION {{<<e>> \o t : t \in DescCagrOrders(S \ {e})} :
                   e \in {e \in S : \A q \in S : FactorLE(q.CAGR, e.CAGR)}}

\* the loop over ts["Country"].unique(): one entry per country with two
\* strictly positive yearly totals; CAGR is the factor f of the percentage
\* ((end / start) ** (1 / years) - 1) * 100 = (f - 1) * 100
CagrListOf(t) ==
    LET cs == Unique([i \in DOMAIN t |-> t[i].Country])
        entry(c) ==
            LET sub == SelectSeq(t, LAMBDA r : r.Country = c)
                nonzero == SelectSeq(sub, LAMBDA r : r.Value > 0)
            IN  IF Len(nonzero) < 2 THEN <<>>
                ELSE LET start == nonzero[1].Value
                         end   == nonzero[Len(nonzero)].Value
                         years == nonzero[Len(nonzero)].Year - nonzero[1].Year
                     IN  IF years > 0
                         THEN <<[Country |-> c,
                                 CAGR |-> RawFactor(start, end, years)]>>
                         ELSE <<>>
    IN  FlattenSeq([i \in DOMAIN cs |-> entry(cs[i])])

\* cagr_df.sort_values("CAGR", ascending=False): equal rates in any order
CagrDfOf(t) == DescCagrOrders(Range(CagrListOf(t)))

\* size_df of 2024 merged (inner, on Country) with cagr_df
MatrixOf(t, cdf) ==
    LET latest == SelectSeq(t, LAMBDA r : r.Year = LastYear)
        kept == SelectSeq(latest, LAMBDA r :
                    \E i \in DOMAIN cdf : cdf[i].Country = r.Country)
    IN  [i \in DOMAIN kept |->
            [Country |-> kept[i].Country, Size |-> kept[i].Value,
             CAGR |-> (CHOOSE e \in Range(cdf) :
                          e.Country = kept[i].Country).CAGR]]

otherPageVars ==
    <<df, direction, selected, show_projection, top10, grouped, complete,
      chart_data, notices, pie_year, pie_data, pie_table, mdf, hs_selected,
      view_mode, rank_year, ranking>>

InitEU ==
    /\ page = "EU"
    /\ pc = "start"
    /\ eu_df \in SubsetsUpTo(EuRows, MaxEuRows)
    /\ metric \in Metrics
    /\ ts = <<>> /\ cagr_df = <<>> /\ matrix = <<>>
    /\ df = {} /\ direction = "none" /\ selected = HomeSel
    /\ show_projection = FALSE
    /\ data = {} /\ top10 = <<>> /\ grouped = <<>> /\ complete = <<>>
    /\ chart_data = <<>> /\ notices = <<>> /\ warnings = <<>>
    /\ rendered = {} /\ pie_year = 0 /\ pie_data = <<>> /\ pie_table = <<>>
    /\ mdf = {} /\ hs_selected = {} /\ view_mode = "none" /\ rank_year = 0
    /\ ranking = <<>>

\* lines 66-137: the measure, the yearly totals, the empty check, the chart
EuTimeSeries ==
    /\ page = "EU" /\ pc = "start"
    /\ LET d == MeasureOf(eu_df, metric)
           t == EuGroupBy(d)
       IN  /\ data' = d
           /\ ts' = t
           /\ IF t = <<>>
              THEN /\ warnings' = Append(warnings, NoSelectionMsg)
                   /\ pc' = "stopped"
                   /\ UNCHANGED rendered
              ELSE /\ rendered' = rendered \cup {"eu_trade_line"}
                   /\ pc' = "eu_cagr"
                   /\ UNCHANGED warnings
    /\ UNCHANGED <<page, eu_df, metric, cagr_df, matrix>>
    /\ UNCHANGED otherPageVars
    /\ UNCHANGED cagrVars

\* lines 139-178: the CAGR of each country and its bar chart
EuCagr ==
    /\ page = "EU" /\ pc = "eu_cagr"
    /\ \E o \in CagrDfOf(ts) :
          /\ cagr_df' = o
          /\ IF o = <<>>
             THEN /\ warnings' = Append(warnings, NoCagrMsg)
                  /\ UNCHANGED rendered
             ELSE /\ rendered' = rendered \cup {"cagr_bar"}
                  /\ UNCHANGED warnings
    /\ pc' = "eu_matrix"
    /\ UNCHANGED <<page, data, eu_df, metric, ts, matrix>>
    /\ UNCHANGED otherPageVars
    /\ UNCHANGED cagrVars

\* lines 180-227: the growth vs size matrix; merging on "Country" with a
\* cagr_df built from an empty list (no columns) raises KeyError
EuMatrix ==
    /\ page = "EU" /\ pc = "eu_matrix"
    /\ IF cagr_df = <<>>
       THEN /\ pc' = "raised"
            /\ UNCHANGED <<matrix, warnings, rendered>>
       ELSE LET m == MatrixOf(ts, cagr_df)
            IN  /\ matrix' = m
                /\ pc' = "eu_focus"
                /\ IF m = <<>>
                   THEN /\ warnings' = Append(warnings, NoMatrixMsg)
                        /\ UNCHANGED rendered
                   ELSE /\ rendered' = rendered \cup {"matrix_scatter"}
                        /\ UNCHANGED warnings
    /\ UNCHANGED <<page, data, eu_df, metric, ts, cagr_df>>
    /\ UNCHANGED otherPageVars
    /\ UNCHANGED cagrVars

\* lines 229-266: the chart of the focus country
EuFocus ==
    /\ page = "EU" /\ pc = "eu_focus"
    /\ LET countries == {r.Importer : r \in eu_df} \ TurkeyNames
       IN  \E focus_country \in (IF countries = {} THEN {"None"}
                                  ELSE countries),
              compare_poland \in BOOLEAN :
              rendered' = rendered \cup {"focus_line"}
                 \cup (IF compare_poland /\ focus_country # "Poland"
                       THEN {"poland_line"} ELSE {})
    /\ pc' = "done"
    /\ UNCHANGED <<page, data, warnings, eu_df, metric, ts, cagr_df, matrix>>
    /\ UNCHANGED otherPageVars
    /\ UNCHANGED cagrVars

----------------------------------------------------------------------------
(* Spec: one run of a page script on any small table and any inputs *)

Init ==
    /\ df_series = <<>> /\ sorted_series = <<>> /\ ret = NotCalled
    /\ (InitTrade \/ InitMilitary \/ InitEU)

Next ==
    \/ SafetyCheck
    \/ Top10Block
    \/ TimeSeries
    \/ ShareStructure
    \/ DescriptionDisplay
    \/ MilFilter
    \/ MilHome
    \/ MilCountry
    \/ EuTimeSeries
    \/ EuCagr
    \/ EuMatrix
    \/ EuFocus

Spec == Init /\ [][Next]_vars

----------------------------------------------------------------------------
(* Claims on the page scripts (Spec) *)

\* the time series block of the trade page has run to its chart
LoopDone == page = "Trade" /\ "line_chart" \in rendered

\* the categories of the grouped totals, in loop order
Categories == CodesOf(grouped)

HistoricalOf(frame) == SelectSeq(frame, LAMBDA r : r.Segment = "Historical")

ProjectedOf(frame) == SelectSeq(frame, LAMBDA r : r.Segment = "Projection")

\* the summed value of the filtered records of one (year, category)
SourceTotal(y, c) == SumValues({r \in data : r.Year = y /\ r.Code = c})

\* C4: for every category of the grouped totals the historical segment
\* holds exactly one entry per year 2013..2024, ascending, whose value is
\* the summed Final_FOB_Value of the (year, category) records, 0 without
\* records; also when records lie outside 2013..2024.
C4_ZeroFilledHistory ==
    LoopDone =>
        /\ Len(complete) = Len(Categories)
        /\ \A i \in DOMAIN complete :
              LET hist == HistoricalOf(complete[i]) IN
              /\ Len(hist) = LastYear - FirstYear + 1
              /\ \A k \in 1..(LastYear - FirstYear + 1) :
                    /\ hist[k].Year = FirstYear + k - 1
                    /\ hist[k].Code = Categories[i]
                    /\ hist[k].Final_FOB_Value =
                          Amount(SourceTotal(FirstYear + k - 1, Categories[i]))

\* C4 witness: a category with two records summed in one year inside the
\* range and a record outside the range
C4_Witness ==
    /\ LoopDone
    /\ \E r1, r2, r3 \in data :
          /\ r1 # r2 /\ r1.Year = r2.Year /\ r1.Code = r2.Code
          /\ r1.Year \in FirstYear..LastYear
          /\ r1.Final_FOB_Value + r2.Final_FOB_Value > 0
          /\ r3.Code = r1.Code /\ r3.Year \notin FirstYear..LastYear

\* the last source year of a category in the filtered records
LastSourceYear(c) ==
    CHOOSE y \in {r.Year : r \in {q \in data : q.Code = c}} :
        \A q \in data : q.Code = c => q.Year <= y

\* C5: every projected point other than the shared boundary point lies
\* after 2024, the last period of the zero-filled historical series, so no
\* year carries a historical value and a distinct projected value.
C5_ProjectionAfterHistory ==
    LoopDone =>
        \A i \in DOMAIN complete :
            /\ \A k \in DOMAIN complete[i] :
                  LET r == complete[i][k] IN
                  r.Segment = "Projection" =>
                      \/ r.Year = LastSourceYear(r.Code)
                      \/ r.Year > LastYear
            /\ \A h, q \in Range(complete[i]) :
                  (h.Segment = "Historical" /\ q.Segment = "Projection"
                      /\ h.Year = q.Year)
                  => h.Final_FOB_Value = q.Final_FOB_Value

\* the estimate of a category is invalid: InsufficientHistory or
\* DegenerateBase
InvalidEstimate(c) ==
    LET recent == SelectSeq(SubsetOf(grouped, c),
                            LAMBDA r : r.Year >= WindowStart)
    IN  Len(recent) < 2 \/ recent[1].Final_FOB_Value <= 0

\* C6: with projections requested, every category whose estimate is
\* invalid gets no projection segment, keeps its historical series and is
\* named in an informational notice.
C6_InvalidEstimateReported ==
    (LoopDone /\ show_projection) =>
        \A i \in DOMAIN complete :
            InvalidEstimate(Categories[i]) =>
                /\ ProjectedOf(complete[i]) = <<>>
                /\ HistoricalOf(complete[i]) # <<>>
                /\ [code |-> Categories[i]] \in Range(notices)

\* C7: when the filtered record set is empty, exactly one warning is
\* emitted and the run stops before anything is computed or rendered; when
\* it is not empty, that warning is not emitted.  Trade page and military
\* page alike.
C7_EmptySelectionHalts ==
    /\ (page = "Trade" /\ pc # "start") =>
          IF CodeFilter(DirectionFilter(df, direction), selected) = {}
          THEN /\ warnings = <<NoDataMsg>>
               /\ pc = "stopped"
               /\ top10 = <<>> /\ grouped = <<>> /\ complete = <<>>
               /\ chart_data = <<>> /\ notices = <<>>
               /\ pie_data = <<>> /\ pie_table = <<>>
               /\ rendered = {}
          ELSE NoDataMsg \notin Range(warnings)
    /\ (page = "Military" /\ pc # "start") =>
          IF {r \in mdf : r.cmdCode \in hs_selected} = {}
          THEN /\ warnings = <<NoMilDataMsg>>
               /\ pc = "stopped"
               /\ ranking = <<>> /\ rank_year = 0 /\ notices = <<>>
               /\ rendered = {}
          ELSE NoMilDataMsg \notin Range(warnings)

\* C7 witness: a loaded table of which the filters leave nothing, stopped
\* on the warning
C7_Witness ==
    /\ page = "Trade"
    /\ df # {}
    /\ pc = "stopped"
    /\ warnings = <<NoDataMsg>>

\* the same on the military page
C7_WitnessMilitary ==
    /\ page = "Military"
    /\ mdf # {}
    /\ pc = "stopped"
    /\ warnings = <<NoMilDataMsg>>

\* the share block has run for a structure year
ShareDone == page = "Trade" /\ pc \in {"done", "stopped"} /\ pie_year # 0

\* C8: when the totals of the structure year sum to 0, the share block
\* warns, produces neither pie chart nor share table, and no share is the
\* result of a division by zero.
C8_ZeroTotalReported ==
    (ShareDone /\ SumValues({r \in data : r.Year = pie_year}) = 0) =>
        /\ warnings # <<>>
        /\ "pie" \notin rendered
        /\ "share_table" \notin rendered
        /\ \A i \in DOMAIN pie_data : ~pie_data[i].Share.nan

\* the TOP 10 BLOCK has run
RankDone == page = "Trade" /\ "top10_bar" \in rendered

\* the categories with rows in the latest year, and their totals
LatestCategories ==
    {r.Code : r \in {q \in data : \A x \in data : x.Year <= q.Year}}

LatestTotal(c) ==
    SumValues({r \in data : r.Code = c /\ \A x \in data : x.Year <= r.Year})

Ranked == {top10[i].Code : i \in DOMAIN top10}

\* C9: the ranking holds min(10, number of categories with rows in the
\* latest year) distinct categories with their totals, in non-increasing
\* order, and no category left out has a larger total than one included.
C9_TopNRanking ==
    RankDone =>
        /\ Len(top10) = IF Cardinality(LatestCategories) < TopN
                        THEN Cardinality(LatestCategories) ELSE TopN
        /\ \A i \in DOMAIN top10 :
              /\ top10[i].Code \in LatestCategories
              /\ top10[i].Final_FOB_Value = LatestTotal(top10[i].Code)
        /\ \A i, j \in DOMAIN top10 : i # j => top10[i].Code # top10[j].Code
        /\ \A i, j \in DOMAIN top10 :
              i < j => top10[i].Final_FOB_Value >= top10[j].Final_FOB_Value
        /\ \A c \in LatestCategories \ Ranked :
              \A i \in DOMAIN top10 : LatestTotal(c) <= top10[i].Final_FOB_Value

\* C9 witness: more than 10 categories, and one left out ties with the
\* last one kept
C9_Witness ==
    /\ RankDone
    /\ Cardinality(LatestCategories) > TopN
    /\ Len(top10) = TopN
    /\ \E c \in LatestCategories \ Ranked :
          LatestTotal(c) = top10[TopN].Final_FOB_Value

\* C10: categories of equal total keep their original row order (that of
\* the aggregated totals: ascending code), inside the ranking and across
\* the cut, so the ranking of a table is one fixed order.
C10_StableTieBreak ==
    RankDone =>
        /\ \A i, j \in DOMAIN top10 :
              (i < j /\ top10[i].Final_FOB_Value = top10[j].Final_FOB_Value)
                  => top10[i].Code < top10[j].Code
        /\ \A c \in LatestCategories \ Ranked :
              \A i \in DOMAIN top10 :
                  LatestTotal(c) = top10[i].Final_FOB_Value
                      => top10[i].Code < c

\* the time series block of the trade page has run (to its chart or to a
\* stop)
LoopRan ==
    page = "Trade" /\ data # {} /\ pc \notin {"start", "top10", "timeseries"}

\* the records charted: those of the ranked categories in Home mode
DataForChart ==
    IF selected.home THEN {r \in data : r.Code \in Ranked} ELSE data

\* the frame the loop body yields for category c when the records of
\* category x are absent from the input of the loop
FrameWithout(c, x) ==
    MergedOf(c,
             SubsetOf(GroupByYearLevel({r \in DataForChart : r.Code # x}), c),
             show_projection)

\* chart_data holds one historical series of category c: one row per year
\* 2013..2024 and no other historical row
HistoryInChart(c) ==
    LET rows == {r \in DOMAIN chart_data :
                    r.Code = c /\ r.Segment = "Historical"}
    IN  /\ {r.Year : r \in rows} = FirstYear..LastYear
        /\ Cardinality(rows) = LastYear - FirstYear + 1
        /\ \A r \in rows : chart_data[r] = 1

\* C11: a category whose growth estimate is invalid stops neither the loop
\* nor the run; the rows of every other category are exactly those the loop
\* yields when the records of the failing category are absent; and every
\* category of the grouped totals has one historical series in chart_data.
C11_LocalFailures ==
    LoopRan =>
        /\ LoopDone
        /\ pc # "stopped"
        /\ NoChartMsg \notin Range(warnings)
        /\ Len(complete) = Len(Categories)
        /\ \A i \in DOMAIN Categories : HistoryInChart(Categories[i])
        /\ \A i, j \in DOMAIN Categories :
              (i # j /\ InvalidEstimate(Categories[i])) =>
                  complete[j] = FrameWithout(Categories[j], Categories[i])

\* C11 witness: projections requested, one category without a valid
\* estimate (and named in a notice) beside one that got its projection
C11_Witness ==
    /\ LoopDone
    /\ show_projection
    /\ \E i, j \in DOMAIN Categories :
          /\ InvalidEstimate(Categories[i])
          /\ [code |-> Categories[i]] \in Range(notices)
          /\ ProjectedOf(complete[j]) # <<>>

\* the share block has shown its pie chart and its table
ShareShown == page = "Trade" /\ "share_table" \in rendered

\* the summed value of the filtered records of the structure year
YearTotal == SumValues({r \in data : r.Year = pie_year})

\* C12: when the totals of the structure year have a positive sum, the
\* share of each category is 100 * value / sum, lies in [0, 100], and the
\* shares of the year sum to 100; totals 50, 30, 20 give 50, 30, 20.
C12_SharesOfTotal ==
    (ShareShown /\ YearTotal > 0) =>
        /\ \A i \in DOMAIN pie_data :
              LET sh == pie_data[i].Share IN
              /\ ~sh.nan
              /\ sh.den = YearTotal
              /\ sh.num = 100 * SourceTotal(pie_year, pie_data[i].Code)
              /\ 0 <= sh.num /\ sh.num <= 100 * sh.den
        \* all shares are over the denominator YearTotal
        /\ SeqSum([i \in DOMAIN pie_data |-> pie_data[i].Share.num])
              = 100 * YearTotal
        /\ (df = ShareTable(50, 30, 20) =>
              [i \in DOMAIN pie_data |->
                  <<pie_data[i].Share.num \div pie_data[i].Share.den,
                    pie_data[i].Share.num % pie_data[i].Share.den>>]
                  = <<<<50, 0>>, <<30, 0>>, <<20, 0>>>>)

\* C12 witness: three categories with three different shares, none of
\* them a whole number of per cent
C12_Witness ==
    /\ ShareShown
    /\ YearTotal > 0
    /\ Len(pie_data) = 3
    /\ \A i, j \in DOMAIN pie_data :
          i # j => pie_data[i].Share.num # pie_data[j].Share.num
    /\ \A i \in DOMAIN pie_data :
          pie_data[i].Share.num % pie_data[i].Share.den # 0

\* share < 0.01 and share < 1; no comparison with NaN is true
Tiny(sh) == ~sh.nan /\ 100 * sh.num < sh.den

BelowOne(sh) == ~sh.nan /\ sh.num < sh.den

\* a <= b for two shares
ShareLE(a, b) ==
    /\ ~a.nan /\ ~b.nan
    /\ IF a.den = b.den THEN a.num <= b.num
       ELSE a.num * b.den <= b.num * a.den

\* the categories with records in the structure year
YearCategories == {r.Code : r \in {q \in data : q.Year = pie_year}}

\* the cell is the share rounded to two decimals
TwoDecimalCell(cell, sh) ==
    /\ cell.text = "number"
    /\ ~sh.nan
    /\ LET d == cell.hundredths * sh.den - 100 * sh.num
       IN  2 * d <= sh.den /\ -2 * d <= sh.den

\* C13: every category with records in the structure year is once in the
\* share table whatever its share; its pie label is empty exactly when its
\* share is < 1; its cell is "<0.01" exactly when its share is < 0.01 and a
\* two-decimal number otherwise; the rows of share >= 0.01 come first, in
\* descending order of share, and the rows of share < 0.01 after them.
C13_ShareDisplayPolicy ==
    ShareShown =>
        /\ Len(pie_table) = Cardinality(YearCategories)
        /\ {pie_table[k].Code : k \in DOMAIN pie_table} = YearCategories
        /\ \A i \in DOMAIN pie_data :
              (~pie_data[i].Labelled) <=> BelowOne(pie_data[i].Share)
        /\ \A k \in DOMAIN pie_table :
              LET r == pie_table[k] IN
              /\ \E i \in DOMAIN pie_data :
                    pie_data[i].Code = r.Code /\ pie_data[i].Share = r.Share
              /\ (r.Share_Display.text = "<0.01") <=> Tiny(r.Share)
              /\ ~Tiny(r.Share) => TwoDecimalCell(r.Share_Display, r.Share)
        /\ \A k, l \in DOMAIN pie_table :
              k < l =>
                  /\ Tiny(pie_table[k].Share) => Tiny(pie_table[l].Share)
                  /\ (~Tiny(pie_table[k].Share) /\ ~Tiny(pie_table[l].Share))
                        => ShareLE(pie_table[l].Share, pie_table[k].Share)

\* the rows of a frame at the point (y, v), with a given tag or any
RowsAt(frame, y, v) ==
    {k \in DOMAIN frame :
        frame[k].Year = y /\ frame[k].Final_FOB_Value = v}

TaggedAt(frame, y, v, seg) ==
    {k \in RowsAt(frame, y, v) : frame[k].Segment = seg}

\* C14: in the chart data of every category with a projection segment the
\* point (lastPeriod, lastValue) occurs twice with the same value, once
\* tagged Historical and once tagged Projection, and every other point
\* (year, value) occurs once, under one tag.
C14_SharedBoundaryPoint ==
    LoopDone =>
        \A i \in DOMAIN complete :
            ProjectedOf(complete[i]) # <<>> =>
                LET c == Categories[i]
                    lastPeriod == LastSourceYear(c)
                    lastValue  == Amount(SourceTotal(lastPeriod, c))
                IN  /\ Cardinality(TaggedAt(complete[i], lastPeriod,
                                            lastValue, "Historical")) = 1
                    /\ Cardinality(TaggedAt(complete[i], lastPeriod,
                                            lastValue, "Projection")) = 1
                    /\ \A k \in DOMAIN complete[i] :
                          LET r == complete[i][k] IN
                          (r.Year # lastPeriod \/ r.Final_FOB_Value # lastValue)
                              => RowsAt(complete[i], r.Year,
                                        r.Final_FOB_Value) = {k}

\* 1 - 0.35 <= g <= 1 + 0.35 for the factor g = 1 + rate
WithinCap(g) ==
    /\ CmpFactor(g, 100 + CagrCap, 100) <= 0
    /\ CmpFactor(g, 100 - CagrCap, 100) >= 0

\* the CAGR block of the EU page has run
EuCagrDone == page = "EU" /\ pc \in {"eu_matrix", "eu_focus", "raised", "done"}

\* C15: every growth rate produced lies in [-0.35, +0.35] (-35% .. +35%):
\* the rate of every projection of the trade page, and the CAGR of every
\* country on the EU page, computed from its first and last strictly
\* positive yearly totals.
C15_AllRatesClamped ==
    /\ (LoopDone /\ show_projection) =>
          \A i \in DOMAIN Categories :
              LET proj == ProjectSeriesCagr(
                              SeriesOf(SubsetOf(grouped, Categories[i])))
              IN  proj # None => WithinCap(proj.cagr)
    /\ EuCagrDone =>
          \A i \in DOMAIN cagr_df : WithinCap(cagr_df[i].CAGR)

\* the ranking of the military page has been drawn
MilRankDone == page = "Military" /\ "rank_bar" \in rendered

\* the filtered military records of the ranking year
RankYearRows == {r \in data : r.refYear = rank_year}

\* C16: on the military page, for any ranking year 2013..2024 the run
\* completes without warning or stop; when the year has no records after
\* the HS-code filter the ranking is empty; when it has, the ranking lists
\* every importer of the year once, with its summed value, in
\* non-increasing order.
C16_EmptyYearRanking ==
    MilRankDone =>
        /\ rank_year \in FirstYear..LastYear
        /\ pc = "done"
        /\ warnings = <<>>
        /\ (RankYearRows = {} => ranking = <<>>)
        /\ Len(ranking) = Cardinality({r.Importer : r \in RankYearRows})
        /\ {ranking[i].Importer : i \in DOMAIN ranking}
              = {r.Importer : r \in RankYearRows}
        /\ \A i \in DOMAIN ranking :
              ranking[i].primaryValue =
                  SumPrimary({r \in RankYearRows :
                                 r.Importer = ranking[i].Importer})
        /\ \A i, j \in DOMAIN ranking :
              i < j => ranking[i].primaryValue >= ranking[j].primaryValue

\* C16 witness: an empty ranking for a year that has records in the table,
\* none of them with a selected HS code
C16_Witness ==
    /\ MilRankDone
    /\ ranking = <<>>
    /\ data # {}
    /\ \E r \in mdf : r.refYear = rank_year

\* C17: whenever the notice "Not enough data to create projections for
\* code c" was emitted for a category, the chart data of that category
\* holds no point tagged Projection.
C17_NoticeTruthful ==
    LoopDone =>
        \A i \in DOMAIN complete :
            [code |-> Categories[i]] \in Range(notices)
                => ProjectedOf(complete[i]) = <<>>

\* the time series block has run in Home mode
HomeLoopDone == LoopDone /\ selected.home

\* C18: in Home mode the categories that get a time series are exactly the
\* ranked categories, at least 1 and at most 10 of them; and when the latest
\* year lies in 2013..2024, the historical value of each at the latest year
\* is the total the ranking shows for it.
C18_RankerAggregatorAgree ==
    HomeLoopDone =>
        /\ Range(Categories) = Ranked
        /\ Len(complete) = Cardinality(Ranked)
        /\ 1 <= Len(complete) /\ Len(complete) <= TopN
        /\ LatestYear(data) \in FirstYear..LastYear =>
              \A i \in DOMAIN complete :
                  \E k \in DOMAIN top10, h \in DOMAIN complete[i] :
                      /\ top10[k].Code = Categories[i]
                      /\ complete[i][h].Segment = "Historical"
                      /\ complete[i][h].Year = LatestYear(data)
                      /\ complete[i][h].Final_FOB_Value
                            = Amount(top10[k].Final_FOB_Value)

\* C18 witness: more categories in the latest year than the ranking keeps,
\* and ten series
C18_Witness ==
    /\ HomeLoopDone
    /\ Cardinality(LatestCategories) > TopN
    /\ Len(complete) = TopN
    /\ LatestYear(data) \in FirstYear..LastYear

\* C19: once the empty-selection check has passed, the loop appends one
\* result per distinct category of the grouped totals and there is at
\* least one, in Home mode and with a selected code; so the warning "Not
\* enough data available to generate chart for this selection." is never
\* emitted and the run never stops there.
C19_SecondWarningUnreachable ==
    /\ page = "Trade" =>
          /\ NoChartMsg \notin Range(warnings)
          /\ (pc = "stopped" => data = {} /\ warnings = <<NoDataMsg>>)
    /\ LoopRan =>
          /\ grouped # <<>>
          /\ complete # <<>>
          /\ Len(complete) = Cardinality({grouped[k].Code : k \in DOMAIN grouped})
          /\ \A i \in DOMAIN complete :
                \A h \in DOMAIN complete[i] :
                    complete[i][h].Code = Categories[i]
          /\ \A i, j \in DOMAIN Categories :
                i # j => Categories[i] # Categories[j]
          /\ "line_chart" \in rendered

\* C19 witness: a selected code whose records all have value 0 still gets
\* its series
C19_Witness ==
    /\ LoopRan
    /\ ~selected.home
    /\ \A r \in data : r.Final_FOB_Value = 0
    /\ Len(complete) = 1
    /\ "line_chart" \in rendered

\* what the loop got from project_series_cagr for category c
ProjectionOf(c) == ProjectSeriesCagr(SeriesOf(SubsetOf(grouped, c)))

\* the grouped totals of category c inside the analysis window
RecentTotals(c) ==
    SelectSeq(SubsetOf(grouped, c), LAMBDA r : r.Year >= WindowStart)

\* C20: whenever project_series_cagr returns a projection, the point it
\* projects from is the point used as end of the growth ratio, its year is
\* at least 2021 and the projection has at most 9 points; when that year is
\* 2030 or later the projection is empty, the chart of the category gets no
\* projection segment and no notice is emitted for it.
C20_ProjectionBase ==
    (LoopDone /\ show_projection) =>
        \A i \in DOMAIN complete :
            LET c      == Categories[i]
                subset == SubsetOf(grouped, c)
                recent == RecentTotals(c)
                base   == subset[Len(subset)]
            IN  ProjectionOf(c) # None =>
                    /\ base = recent[Len(recent)]
                    /\ base.Year >= WindowStart + 1
                    /\ Len(ProjectionOf(c).rows) <= HorizonEnd - WindowStart - 1
                    /\ Len(ProjectedOf(complete[i])) <= HorizonEnd - WindowStart
                    /\ base.Year >= HorizonEnd =>
                          /\ ProjectionOf(c).rows = <<>>
                          /\ ProjectedOf(complete[i]) = <<>>
                          /\ [code |-> c] \notin Range(notices)

\* a <= b for two chart values coef * g^pow, coef >= 0, g = 1 + rate > 0
ValueLE(a, b, g) ==
    IF a.pow <= b.pow
    THEN Pow(a.coef, g.root) * Pow(g.den, b.pow - a.pow)
            <= Pow(b.coef, g.root) * Pow(g.num, b.pow - a.pow)
    ELSE Pow(a.coef, g.root) * Pow(g.num, a.pow - b.pow)
            <= Pow(b.coef, g.root) * Pow(g.den, a.pow - b.pow)

\* the running value last_value after k passes of the loop, before max(., 0)
RunningValue(k) ==
    IF LastValue = 0 THEN Amount(0) ELSE [coef |-> LastValue, pow |-> k]

\* C21: for a series of non-negative values the rate of a returned result
\* is in [-0.35, +0.35], every running value is >= 0 and the floor at 0
\* leaves it as it is; the projected values are non-decreasing when the
\* rate is >= 0 and non-increasing when it is < 0; and a last historical
\* value of 0 gives 0 in every projected year.
C21_FloorNeverBinds ==
    (Returned /\ \A i \in DOMAIN df_series : df_series[i].Final_FOB_Value >= 0)
    =>  /\ WithinCap(ret.cagr)
        /\ \A k \in DOMAIN ret.rows :
              /\ RunningValue(k).coef >= 0
              /\ ret.rows[k].Final_FOB_Value = RunningValue(k)
        /\ \A k \in DOMAIN ret.rows :
              k < Len(ret.rows) =>
                  IF CmpFactor(ret.cagr, 1, 1) >= 0
                  THEN ValueLE(ret.rows[k].Final_FOB_Value,
                               ret.rows[k + 1].Final_FOB_Value, ret.cagr)
                  ELSE ValueLE(ret.rows[k + 1].Final_FOB_Value,
                               ret.rows[k].Final_FOB_Value, ret.cagr)
        /\ (LastValue = 0 =>
              \A k \in DOMAIN ret.rows :
                  ret.rows[k].Final_FOB_Value = Amount(0))

\* C21 witness: a shrinking series with a positive last value, its
\* projection strictly falling and never floored
C21_Witness ==
    /\ Returned
    /\ CmpFactor(ret.cagr, 1, 1) < 0
    /\ LastValue > 0
    /\ Len(ret.rows) >= 2
    /\ ~ValueLE(ret.rows[1].Final_FOB_Value, ret.rows[2].Final_FOB_Value,
                ret.cagr)

\* the positions of the strictly positive yearly totals of a country in ts
PositiveTotals(c) ==
    {i \in DOMAIN ts : ts[i].Country = c /\ ts[i].Value > 0}

\* the countries of the CAGR result
CagrCountries == {cagr_df[i].Country : i \in DOMAIN cagr_df}

\* C22: on the EU page a country is in the CAGR result, once, if and only
\* if its yearly totals hold at least 2 strictly positive values; its
\* anchors are the first and the last of them, so the start is never 0 and
\* the span in years is > 0; a country left out gets no notice of its own.
C22_EuCagrInclusion ==
    EuCagrDone =>
        /\ \A c \in {ts[i].Country : i \in DOMAIN ts} :
              c \in CagrCountries <=> Cardinality(PositiveTotals(c)) >= 2
        /\ CagrCountries \subseteq {ts[i].Country : i \in DOMAIN ts}
        /\ Len(cagr_df) = Cardinality(CagrCountries)
        /\ \A i \in DOMAIN cagr_df :
              LET pos   == PositiveTotals(cagr_df[i].Country)
                  first == CHOOSE a \in pos : \A b \in pos : a <= b
                  last  == CHOOSE a \in pos : \A b \in pos : a >= b
              IN  /\ cagr_df[i].CAGR.den = ts[first].Value
                  /\ cagr_df[i].CAGR.num = ts[last].Value
                  /\ cagr_df[i].CAGR.root = ts[last].Year - ts[first].Year
                  /\ cagr_df[i].CAGR.den > 0
                  /\ cagr_df[i].CAGR.root > 0
        /\ notices = <<>>
        /\ Range(warnings) \subseteq {NoCagrMsg, NoMatrixMsg}

\* C22 witness: a country whose first yearly total is 0 is kept, anchored
\* at its first positive year
C22_Witness ==
    /\ EuCagrDone
    /\ \E i \in DOMAIN cagr_df, k \in DOMAIN ts :
          /\ ts[k].Country = cagr_df[i].Country
          /\ ts[k].Value = 0
          /\ \A p \in PositiveTotals(cagr_df[i].Country) : k < p

\* the categories of a table in row order
CodeOrder(t) == [k \in DOMAIN t |-> t[k].Code]

\* C23: for finite shares (a positive year total) the rows of share >= 0.01
\* followed by the rows of share < 0.01 are in the very order of the
\* descending sort they were split from, for every outcome of the sort; so
\* the displayed table is in descending order of share, in a sort order of
\* the share rows.
C23_TinyMoveIsNoOp ==
    (ShareShown /\ YearTotal > 0) =>
        /\ \A s \in SortShareDesc(pie_data) :
              CodeOrder(DisplayTable(s)) = CodeOrder(s)
        /\ \E s \in SortShareDesc(pie_data) :
              CodeOrder(pie_table) = CodeOrder(s)
        /\ \A k, l \in DOMAIN pie_table :
              k < l => ShareLE(pie_table[l].Share, pie_table[k].Share)

\* C23 witness: a displayed table of three rows, the first of share >= 0.01
\* and the last of a positive share < 0.01
C23_Witness ==
    /\ ShareShown
    /\ YearTotal > 0
    /\ Len(pie_table) = 3
    /\ ~Tiny(pie_table[1].Share)
    /\ Tiny(pie_table[3].Share)
    /\ pie_table[3].Share.num > 0

====
